---- MODULE Spec2Model ----
(***************************************************************************)
(* The puzzle session engine of SMChess: ChessLogic (chess_logic.py),      *)
(* StateManager (state_manager.py) and the puzzle source PuzzleManager     *)
(* (puzzle_manager.py).  The chess-rules library the engine                *)
(* calls (chess.Board, chess.Move) is an external collaborator; it is      *)
(* represented by a small deterministic rules capability with the same     *)
(* interface (parse_san, from_uci, legal_moves, push, pop, san,            *)
(* is_checkmate, is_stalemate).                                            *)
(***************************************************************************)
EXTENDS Integers, Sequences, FiniteSets, TLC

VARIABLES
    game_state,      \* ChessLogic.game_state: None or Some(GameState)
    solution_moves,  \* ChessLogic.solution_moves
    puzzle_id,       \* ChessLogic.puzzle_id: None or Some(id)
    states,          \* StateManager.states
    current_state,   \* StateManager.current_state: None or Some(PuzzleState)
    current_puzzle,  \* PuzzleManager.current_puzzle: None or Some(PuzzleData)
    message_counter  \* server.py message_counter

vars == <<game_state, solution_moves, puzzle_id, states, current_state,
          current_puzzle, message_counter>>

-----------------------------------------------------------------------------
(* Bounds of the model.                                                    *)

MaxPly == 3       \* longest move history the engine is driven to
MaxSol == 3       \* longest solution handed to initialize / resume
MaxSeq == 2       \* longest input list handed to play_move_tree
MaxStates == 3    \* most states the store is driven to hold
MaxRef == 2       \* largest message id

-----------------------------------------------------------------------------
(* Optional values: Python's None and a present value.                     *)

None == <<>>
Some(v) == <<v>>

\* Body applied to the value of e, computed once
Bind(e, Body(_)) == CHOOSE r \in {Body(x) : x \in {e}} : TRUE

-----------------------------------------------------------------------------
(* The chess-rules capability.                                             *)

Mv(f, t) == [from_square |-> f, to_square |-> t]

\* chess.Move.null(): from and to square both square 0 (a1); uci() is "0000"
NullMove == Mv("a1", "a1")

\* Move.__bool__: a move is falsy exactly when it is the null move
Truthy(move) == move # NullMove

\* the coordinate strings of the capability and the moves they denote
UciTable ==
    ("e2e4" :> Mv("e2", "e4")) @@ ("d2d4" :> Mv("d2", "d4")) @@
    ("d1h5" :> Mv("d1", "h5")) @@ ("e7e5" :> Mv("e7", "e5")) @@
    ("d8h4" :> Mv("d8", "h4")) @@ ("g6h5" :> Mv("g6", "h5")) @@
    ("d7d6" :> Mv("d7", "d6"))

UciStrs == DOMAIN UciTable

\* strings parse_san reads as the null move
NullStrs == {"0000"}

\* chess.Move.from_uci: None stands for InvalidMoveError being raised
from_uci(s) ==
    IF s \in NullStrs THEN Some(NullMove)
    ELSE IF s \in UciStrs THEN Some(UciTable[s])
    ELSE None

\* chess.Move.uci
uci(move) ==
    IF move = NullMove THEN "0000"
    ELSE CHOOSE s \in UciStrs : UciTable[s] = move

\* the algebraic name of a move, without check or mate mark
SanTable ==
    ("e2e4" :> "e4") @@ ("d2d4" :> "d4") @@ ("d1h5" :> "Qh5") @@
    ("e7e5" :> "e5") @@ ("d8h4" :> "Qh4") @@ ("g6h5" :> "gxh5") @@
    ("d7d6" :> "d6")

\* the algebraic name with the mate mark
SanMateTable ==
    ("e2e4" :> "e4#") @@ ("d2d4" :> "d4#") @@ ("d1h5" :> "Qh5#") @@
    ("e7e5" :> "e5#") @@ ("d8h4" :> "Qh4#") @@ ("g6h5" :> "gxh5#") @@
    ("d7d6" :> "d6#")

WhiteMoves == {UciTable["e2e4"], UciTable["d2d4"], UciTable["d1h5"]}
BlackMoves == {UciTable["e7e5"], UciTable["d8h4"], UciTable["d7d6"]}

\* chess.Board(fen): the start position with an empty move stack.  None
\* stands for ValueError being raised on a malformed position string.
Fens == {"fen0"}
Board(fen) ==
    IF fen \in Fens THEN Some([fen |-> fen, move_stack |-> <<>>]) ELSE None

Played(board) == {board.move_stack[i] : i \in 1..Len(board.move_stack)}

WhiteToMove(board) == Len(board.move_stack) % 2 = 0

\* a queen that has left its home square ends the game: the side to move
\* has no move left
QueenOut(board) ==
    Played(board) \cap {UciTable["d1h5"], UciTable["d8h4"]} # {}

\* board.legal_moves: White opens with e2e4 or d2d4; after d2d4 Black has
\* no move; after e2e4 Black answers once, with a pawn or with the queen;
\* White's queen goes to h5 once e2e4 has opened its diagonal
legal_moves(board) ==
    LET played == Played(board) IN
    IF QueenOut(board) THEN {}
    ELSE IF WhiteToMove(board)
         THEN {m \in WhiteMoves :
                  IF m = UciTable["d1h5"]
                  THEN UciTable["e2e4"] \in played
                  ELSE board.move_stack = <<>>}
         ELSE {m \in BlackMoves :
                  /\ UciTable["e2e4"] \in played
                  /\ played \cap BlackMoves = {}}

\* board.push: no legality check, the move is put on the stack
push(board, move) == [board EXCEPT !.move_stack = Append(@, move)]

\* board.pop
pop(board) ==
    [board EXCEPT !.move_stack = SubSeq(@, 1, Len(@) - 1)]

\* board.is_checkmate: no legal move and the king attacked, which is what
\* a queen that has left its home square does
is_checkmate(board) ==
    /\ legal_moves(board) = {}
    /\ QueenOut(board)

\* board.is_stalemate: no legal move and the king not attacked
is_stalemate(board) ==
    /\ legal_moves(board) = {}
    /\ ~is_checkmate(board)

\* board.piece_type_at(move.from_square) is not None: the piece a move of
\* the capability moves stands on its square until that move is played;
\* no piece ever stands on g6
PieceOnFromSquare(board, move) ==
    /\ move \in WhiteMoves \cup BlackMoves
    /\ move \notin Played(board)

\* board.san(move)
san(board, move) ==
    IF is_checkmate(push(board, move))
    THEN SanMateTable[uci(move)]
    ELSE SanTable[uci(move)]

\* board.parse_san: the null strings give the null move; a legal move is
\* found by its algebraic name (with or without mark) or by its fully
\* specified coordinate form; None stands for InvalidMoveError or
\* IllegalMoveError being raised
parse_san(board, s) ==
    IF s \in NullStrs THEN Some(NullMove)
    ELSE LET hit == {m \in legal_moves(board) :
                        \/ SanTable[uci(m)] = s
                        \/ SanMateTable[uci(m)] = s
                        \/ uci(m) = s}
         IN IF hit = {} THEN None ELSE Some(CHOOSE m \in hit : TRUE)

-----------------------------------------------------------------------------
(* StateManager (state_manager.py).                                        *)

\* PuzzleState: the frozen dataclass
PuzzleState(pid, moves, mid) ==
    [puzzle_id |-> pid, moves_uci |-> moves, message_id |-> mid]

\* PuzzleState.__eq__ / __hash__: identity is (puzzle_id, moves_uci)
PuzzleStateEq(a, b) ==
    a.puzzle_id = b.puzzle_id /\ a.moves_uci = b.moves_uci

\* a set.add that compares every field, message_id included
SetAddAllFields(S, state) == S \cup {state}

\* a set.add that puts the new state in the place of the equal one
SetAddReplace(S, state) ==
    {held \in S : ~PuzzleStateEq(held, state)} \cup {state}

\* set.add under PuzzleState.__eq__: no-op when an equal element is held
SetAdd(S, state) ==
    IF \E held \in S : PuzzleStateEq(held, state) THEN S ELSE S \cup {state}

\* `state in S` under PuzzleState.__eq__
SetContains(S, state) == \E held \in S : PuzzleStateEq(held, state)

\* the engine and the store as one value, so that a call is a function
World ==
    [game_state |-> game_state, solution_moves |-> solution_moves,
     puzzle_id |-> puzzle_id, states |-> states,
     current_state |-> current_state, current_puzzle |-> current_puzzle,
     message_counter |-> message_counter]

\* StateManager.create_state: builds the state, adds it, returns the state
\* it built
create_state(w, pid, moves, mid) ==
    LET state == PuzzleState(pid, moves, mid) IN
    [w |-> [w EXCEPT !.states = SetAdd(@, state)], ret |-> state]

\* StateManager.copy_state: `or` takes the source's value when the override
\* is None, an empty string or an empty list; the message id is tested
\* with `is not None`
copy_state(w, source_state, new_puzzle_id, new_moves_uci, new_message_id) ==
    create_state(w,
        IF new_puzzle_id # None /\ new_puzzle_id[1] # ""
        THEN new_puzzle_id[1] ELSE source_state.puzzle_id,
        IF new_moves_uci # None /\ new_moves_uci[1] # <<>>
        THEN new_moves_uci[1] ELSE source_state.moves_uci,
        IF new_message_id # None
        THEN new_message_id ELSE source_state.message_id)

\* StateManager.set_current_state
set_current_state(w, state) == [w EXCEPT !.current_state = Some(state)]

\* SearchCriteria: every field None or Some(value)
SearchCriteria(pid, moves, count, cmin, cmax, mid) ==
    [puzzle_id |-> pid, moves_uci |-> moves, move_count |-> count,
     move_count_min |-> cmin, move_count_max |-> cmax, message_id |-> mid]

\* the loop body with the minimum test written <= instead of <
AppendedMinStrict(state, criteria) ==
    /\ criteria.puzzle_id # None => state.puzzle_id = criteria.puzzle_id[1]
    /\ criteria.moves_uci # None => state.moves_uci = criteria.moves_uci[1]
    /\ criteria.move_count # None
          => Len(state.moves_uci) = criteria.move_count[1]
    /\ criteria.move_count_min # None
          => ~(Len(state.moves_uci) <= criteria.move_count_min[1])
    /\ criteria.move_count_max # None
          => ~(Len(state.moves_uci) > criteria.move_count_max[1])
    /\ criteria.message_id # None => state.message_id = criteria.message_id

\* the body of the loop of search_states: TRUE when the state is appended,
\* FALSE when one of the tests reaches `continue`
Appended(state, criteria) ==
    IF criteria.puzzle_id # None /\ state.puzzle_id # criteria.puzzle_id[1]
    THEN FALSE
    ELSE IF criteria.moves_uci # None
            /\ state.moves_uci # criteria.moves_uci[1]
    THEN FALSE
    ELSE IF criteria.move_count # None
            /\ Len(state.moves_uci) # criteria.move_count[1]
    THEN FALSE
    ELSE IF criteria.move_count_min # None
            /\ Len(state.moves_uci) < criteria.move_count_min[1]
    THEN FALSE
    ELSE IF criteria.move_count_max # None
            /\ Len(state.moves_uci) > criteria.move_count_max[1]
    THEN FALSE
    ELSE IF criteria.message_id # None
            /\ state.message_id # criteria.message_id
    THEN FALSE
    ELSE TRUE

\* StateManager.search_states: the states appended, as a set (the list's
\* order is the iteration order of a Python set)
search_states(w, criteria) == {state \in w.states : Appended(state, criteria)}

\* StateManager.get_current_state
get_current_state(w) == [w |-> w, ret |-> w.current_state]

\* a membership test that stores the state it looks for
state_existsCreating(w, pid, moves) ==
    [w |-> [w EXCEPT !.states = SetAdd(@, PuzzleState(pid, moves, None))],
     ret |-> SetContains(w.states, PuzzleState(pid, moves, None))]

\* StateManager.state_exists: `test_state in self.states`
state_exists(w, pid, moves) ==
    [w |-> w, ret |-> SetContains(w.states, PuzzleState(pid, moves, None))]

\* StateManager.get_state_count: len(self.states)
get_state_count(w) == [w |-> w, ret |-> Cardinality(w.states)]

\* an eviction that returns the number of states left
clear_puzzle_statesLeft(w, pid) ==
    LET kept == {state \in w.states : state.puzzle_id # pid}
    IN [w |-> [w EXCEPT
                  !.states = kept,
                  !.current_state =
                      IF @ # None /\ @[1].puzzle_id = pid THEN None ELSE @],
        ret |-> Cardinality(kept)]

\* an eviction that leaves the current pointer alone
clear_puzzle_statesKeepCurrent(w, pid) ==
    LET initial_count == Cardinality(w.states)
        kept == {state \in w.states : state.puzzle_id # pid}
    IN [w |-> [w EXCEPT !.states = kept],
        ret |-> initial_count - Cardinality(kept)]

\* StateManager.clear_puzzle_states: keeps the states of the other puzzles,
\* clears the current pointer when it belongs to the puzzle, returns the
\* difference of the two set sizes
clear_puzzle_states(w, pid) ==
    LET initial_count == Cardinality(w.states)
        kept == {state \in w.states : state.puzzle_id # pid}
    IN [w |-> [w EXCEPT
                  !.states = kept,
                  !.current_state =
                      IF @ # None /\ @[1].puzzle_id = pid THEN None ELSE @],
        ret |-> initial_count - Cardinality(kept)]

-----------------------------------------------------------------------------
(* ChessLogic (chess_logic.py).                                            *)

\* GameState: the dataclass; puzzle_solved defaults to False
GameState(board, moves, index, turn) ==
    [board |-> board, moves_uci |-> moves, current_move_index |-> index,
     is_player_turn |-> turn, puzzle_solved |-> FALSE]

\* an initialization that keeps the solved flag of the session it replaces
initialize_puzzleKeepSolved(w, pid, fen, solution) ==
    LET board == Board(fen) IN
    IF board = None THEN [w |-> w, raised |-> TRUE]
    ELSE [w |-> [w EXCEPT
                    !.solution_moves = solution,
                    !.puzzle_id = Some(pid),
                    !.game_state = Some([GameState(board[1], <<>>, 0, TRUE)
                        EXCEPT !.puzzle_solved =
                            w.game_state # None
                            /\ w.game_state[1].puzzle_solved])],
          raised |-> FALSE]

\* ChessLogic.initialize_puzzle; raised is TRUE when chess.Board(fen) raises,
\* which happens before anything is assigned
initialize_puzzle(w, pid, fen, solution) ==
    LET board == Board(fen) IN
    IF board = None THEN [w |-> w, raised |-> TRUE]
    ELSE [w |-> [w EXCEPT
                    !.solution_moves = solution,
                    !.puzzle_id = Some(pid),
                    !.game_state = Some(GameState(board[1], <<>>, 0, TRUE))],
          raised |-> FALSE]

\* ChessLogic._replay_moves_on_board: every move is parsed by from_uci and
\* pushed without a legality check; None when from_uci raises or the
\* position string is malformed
RECURSIVE replay_moves(_, _, _)
replay_moves(board, moves, i) ==
    IF i > Len(moves) THEN Some(board)
    ELSE LET move == from_uci(moves[i]) IN
         IF move = None THEN None
         ELSE replay_moves(push(board, move[1]), moves, i + 1)

replay_moves_on_board(initial_fen, moves) ==
    LET board == Board(initial_fen) IN
    IF board = None THEN None ELSE replay_moves(board[1], moves, 1)

\* a resume whose index stops at the end of the solution
load_from_stateClamped(w, puzzle_state, initial_fen, solution) ==
    LET board == replay_moves_on_board(initial_fen, puzzle_state.moves_uci) IN
    IF board = None THEN [w |-> w, raised |-> TRUE]
    ELSE [w |-> [w EXCEPT
                    !.puzzle_id = Some(puzzle_state.puzzle_id),
                    !.solution_moves = solution,
                    !.game_state = Some(GameState(
                        board[1],
                        puzzle_state.moves_uci,
                        IF Len(puzzle_state.moves_uci) <= Len(solution)
                        THEN Len(puzzle_state.moves_uci) ELSE Len(solution),
                        Len(puzzle_state.moves_uci) % 2 = 0))],
          raised |-> FALSE]

\* ChessLogic.load_from_state; raised is TRUE when the replay raises, which
\* happens before anything is assigned
load_from_state(w, puzzle_state, initial_fen, solution) ==
    LET board == replay_moves_on_board(initial_fen, puzzle_state.moves_uci) IN
    IF board = None THEN [w |-> w, raised |-> TRUE]
    ELSE [w |-> [w EXCEPT
                    !.puzzle_id = Some(puzzle_state.puzzle_id),
                    !.solution_moves = solution,
                    !.game_state = Some(GameState(
                        board[1],
                        puzzle_state.moves_uci,
                        Len(puzzle_state.moves_uci),
                        Len(puzzle_state.moves_uci) % 2 = 0))],
          raised |-> FALSE]

\* the resolution without the test against the legal moves
ResolveMoveUnchecked(board, move_str) ==
    LET by_san == parse_san(board, move_str) IN
    IF by_san # None THEN by_san ELSE from_uci(move_str)

\* lines 81-94 of play_move: algebraic notation first, then coordinate
\* notation checked against the legal moves; None when neither gives a move
ResolveMove(board, move_str) ==
    LET by_san == parse_san(board, move_str) IN
    IF by_san # None THEN by_san
    ELSE LET by_uci == from_uci(move_str) IN
         IF by_uci = None THEN None
         ELSE IF by_uci[1] \notin legal_moves(board) THEN None
         ELSE by_uci

\* a notification after which the store holds the latest state only
NotifyStoreLatestOnly(w) ==
    IF w.puzzle_id # None /\ w.puzzle_id[1] # ""
    THEN LET made == create_state(w, w.puzzle_id[1],
                                  w.game_state[1].moves_uci, None)
         IN set_current_state([made.w EXCEPT !.states = {made.ret}],
                              made.ret)
    ELSE w

\* a notification that creates the state and leaves the pointer alone
NotifyStoreCreateOnly(w) ==
    IF w.puzzle_id # None /\ w.puzzle_id[1] # ""
    THEN create_state(w, w.puzzle_id[1], w.game_state[1].moves_uci, None).w
    ELSE w

\* lines 117-123 of play_move: the store is told when there is a store and
\* a non-empty puzzle id
NotifyStore(w) ==
    IF w.puzzle_id # None /\ w.puzzle_id[1] # ""
    THEN LET made == create_state(w, w.puzzle_id[1],
                                  w.game_state[1].moves_uci, None)
         IN set_current_state(made.w, made.ret)
    ELSE w

\* the application of a move that leaves the list of moves as it was
ApplyMoveUnrecorded(gs, move) ==
    [gs EXCEPT
        !.board = push(@, move),
        !.current_move_index = IF gs.is_player_turn THEN @ + 1 ELSE @,
        !.is_player_turn = ~@]

\* the application of a move that advances the index on every ply
ApplyMoveEveryPly(gs, move) ==
    [gs EXCEPT
        !.board = push(@, move),
        !.moves_uci = Append(@, uci(move)),
        !.current_move_index = @ + 1,
        !.is_player_turn = ~@]

\* the application of a move that leaves the turn as it was
ApplyMoveKeepTurn(gs, move) ==
    [gs EXCEPT
        !.board = push(@, move),
        !.moves_uci = Append(@, uci(move)),
        !.current_move_index = IF gs.is_player_turn THEN @ + 1 ELSE @]

\* lines 106-115 of play_move: push the move, append its coordinate form,
\* advance the index on a player ply, toggle the turn
ApplyMove(gs, move) ==
    [gs EXCEPT
        !.board = push(@, move),
        !.moves_uci = Append(@, uci(move)),
        !.current_move_index = IF gs.is_player_turn THEN @ + 1 ELSE @,
        !.is_player_turn = ~@]

\* a solved test that looks at the index alone
SolvedTestIndexOnly(gs, solution) ==
    gs.current_move_index >= Len(solution)

\* lines 126-127 of play_move
SolvedTest(gs, solution) ==
    \/ gs.current_move_index >= Len(solution)
    \/ is_checkmate(gs.board)
    \/ is_stalemate(gs.board)

\* lines 96-97 of play_move: the return on a string that gave no move
InvalidMove(w, move_str) ==
    [w |-> w, result |-> "INVALID_MOVE",
     message |-> <<"'", move_str, "' is not a valid move">>]

\* a rejection that still counts the attempt as a consumed scripted ply
WrongMoveCounted(w) ==
    [w |-> [w EXCEPT !.game_state =
                Some([@[1] EXCEPT !.current_move_index = @ + 1])],
     result |-> "WRONG_MOVE",
     message |-> <<"Puzzle expects a different move">>]

\* lines 103-104 of play_move: the return on a legal move that is not the
\* expected one
WrongMove(w) ==
    [w |-> w, result |-> "WRONG_MOVE",
     message |-> <<"Puzzle expects a different move">>]

\* lines 99-131 of play_move, for the move the string was resolved to
PlayResolved(w, gs, move) ==
    IF /\ gs.is_player_turn
       /\ gs.current_move_index < Len(w.solution_moves)
       /\ uci(move) # w.solution_moves[gs.current_move_index + 1]
    THEN WrongMove(w)
    ELSE
    Bind(ApplyMove(gs, move), LAMBDA applied :
        LET san_move == san(gs.board, move)
            told == NotifyStore([w EXCEPT !.game_state = Some(applied)])
        IN
        IF SolvedTest(applied, w.solution_moves)
        THEN [w |-> [told EXCEPT
                        !.game_state = Some([applied EXCEPT
                                                !.puzzle_solved = TRUE])],
              result |-> "PUZZLE_SOLVED",
              message |-> <<"Puzzle solved with ", san_move, "!">>]
        ELSE [w |-> told, result |-> "SUCCESS", message |-> <<san_move>>])

\* a play_move that takes a call without a session for a wrong move
play_moveWrongWithoutSession(w, move_str) ==
    IF w.game_state = None
    THEN [w |-> w, result |-> "WRONG_MOVE",
          message |-> <<"No puzzle initialized">>]
    ELSE
    Bind(ResolveMove(w.game_state[1].board, move_str), LAMBDA move :
        IF move = None \/ ~Truthy(move[1])
        THEN InvalidMove(w, move_str)
        ELSE PlayResolved(w, w.game_state[1], move[1]))

\* ChessLogic.play_move
play_move(w, move_str) ==
    IF w.game_state = None
    THEN [w |-> w, result |-> "INVALID_MOVE",
          message |-> <<"No puzzle initialized">>]
    ELSE
    Bind(ResolveMove(w.game_state[1].board, move_str), LAMBDA move :
        IF move = None \/ ~Truthy(move[1])
        THEN InvalidMove(w, move_str)
        ELSE PlayResolved(w, w.game_state[1], move[1]))

\* a test for the automatic reply that does not look at whose turn it is
AutoReplyTestAnyTurn(w, result) ==
    /\ result = "SUCCESS"
    /\ w.game_state[1].current_move_index < Len(w.solution_moves)

\* lines 156-158 of play_move_tree: the test for the automatic reply
AutoReplyTest(w, result) ==
    /\ result = "SUCCESS"
    /\ ~w.game_state[1].is_player_turn
    /\ w.game_state[1].current_move_index < Len(w.solution_moves)

\* the rest of a pass of the for loop once the input move has been played
AfterPlayed(acc, played) ==
    LET results1 == Append(acc.results, played.message) IN
    IF played.result \in {"INVALID_MOVE", "PUZZLE_SOLVED"}
    THEN [w |-> played.w, result |-> played.result, results |-> results1,
          stopped |-> TRUE]
    ELSE IF AutoReplyTest(played.w, played.result)
    THEN LET gs == played.w.game_state[1]
             opponent_move ==
                 played.w.solution_moves[gs.current_move_index + 1]
         IN Bind(play_move(played.w, opponent_move),
                 LAMBDA opp :
                    [w |-> opp.w,
                     result |-> IF opp.result = "PUZZLE_SOLVED"
                                THEN opp.result ELSE played.result,
                     results |-> Append(results1,
                                        <<"Opponent: ">> \o opp.message),
                     stopped |-> opp.result = "PUZZLE_SOLVED"])
    ELSE [w |-> played.w, result |-> played.result, results |-> results1,
          stopped |-> FALSE]

\* one pass of the for loop of play_move_tree: play the input move, stop
\* on INVALID_MOVE or PUZZLE_SOLVED, else play the scripted reply when the
\* test allows it and stop when that reply solves the puzzle
TreeStep(acc, move_str) ==
    Bind(play_move(acc.w, move_str), LAMBDA played : AfterPlayed(acc, played))

\* the for loop of play_move_tree from input i on, until a break
RECURSIVE TreeLoop(_, _, _)
TreeLoop(acc, moves, i) ==
    IF i > Len(moves) \/ acc.stopped THEN acc
    ELSE Bind(TreeStep(acc, moves[i]),
              LAMBDA next : TreeLoop(next, moves, i + 1))

\* ChessLogic.play_move_tree; result is "unbound" until the first pass has
\* assigned it: with no input the return statement reads the unassigned
\* local and UnboundLocalError is raised
play_move_tree(w, moves) ==
    Bind(TreeLoop([w |-> w, result |-> "unbound", results |-> <<>>,
                   stopped |-> FALSE], moves, 1),
         LAMBDA out :
            IF out.result = "unbound"
            THEN [w |-> out.w, result |-> "UnboundLocalError",
                  results |-> out.results, raised |-> TRUE]
            ELSE [w |-> out.w, result |-> out.result,
                  results |-> out.results, raised |-> FALSE])

\* the while loop of rollback_moves: pops while fewer than count are popped
\* and the board's move stack is not empty
RECURSIVE PopLoop(_, _, _)
PopLoop(gs, count, moves_popped) ==
    IF moves_popped < count /\ gs.board.move_stack # <<>>
    THEN PopLoop([gs EXCEPT
                     !.board = pop(@),
                     !.moves_uci = SubSeq(@, 1, Len(@) - 1)],
                 count, moves_popped + 1)
    ELSE [gs |-> gs, moves_popped |-> moves_popped]

Max(a, b) == IF a >= b THEN a ELSE b

\* a rollback that leaves the solved flag as it was
rollback_movesKeepSolved(w, count) ==
    IF w.game_state = None \/ count <= 0 THEN [w |-> w, ret |-> FALSE]
    ELSE
    LET popped == PopLoop(w.game_state[1], count, 0)
        gs == popped.gs
    IN [w |-> [w EXCEPT !.game_state = Some([gs EXCEPT
                  !.current_move_index = Max(0, @ - popped.moves_popped),
                  !.is_player_turn = Len(gs.moves_uci) % 2 = 0])],
        ret |-> popped.moves_popped > 0]

\* a rollback whose index goes below 0
rollback_movesNoFloor(w, count) ==
    IF w.game_state = None \/ count <= 0 THEN [w |-> w, ret |-> FALSE]
    ELSE
    LET popped == PopLoop(w.game_state[1], count, 0)
        gs == popped.gs
    IN [w |-> [w EXCEPT !.game_state = Some([gs EXCEPT
                  !.current_move_index = @ - popped.moves_popped,
                  !.is_player_turn = Len(gs.moves_uci) % 2 = 0,
                  !.puzzle_solved = FALSE])],
        ret |-> popped.moves_popped > 0]

\* a rollback that takes a count of 0 as a count to work on
rollback_movesZero(w, count) ==
    IF w.game_state = None \/ count < 0 THEN [w |-> w, ret |-> FALSE]
    ELSE
    LET popped == PopLoop(w.game_state[1], count, 0)
        gs == popped.gs
    IN [w |-> [w EXCEPT !.game_state = Some([gs EXCEPT
                  !.current_move_index = Max(0, @ - popped.moves_popped),
                  !.is_player_turn = Len(gs.moves_uci) % 2 = 0,
                  !.puzzle_solved = FALSE])],
        ret |-> popped.moves_popped > 0]

\* ChessLogic.rollback_moves
rollback_moves(w, count) ==
    IF w.game_state = None \/ count <= 0 THEN [w |-> w, ret |-> FALSE]
    ELSE
    LET popped == PopLoop(w.game_state[1], count, 0)
        gs == popped.gs
    IN [w |-> [w EXCEPT !.game_state = Some([gs EXCEPT
                  !.current_move_index = Max(0, @ - popped.moves_popped),
                  !.is_player_turn = Len(gs.moves_uci) % 2 = 0,
                  !.puzzle_solved = FALSE])],
        ret |-> popped.moves_popped > 0]

\* ChessLogic.get_hint.  from_uci raising gives the coordinate string;
\* board.san returns "--" for the null move and fails its assertion (an
\* error the except clause does not name, so get_hint raises) for a move
\* from a square that holds no piece
get_hint(w) ==
    IF \/ w.game_state = None
       \/ w.game_state[1].puzzle_solved
       \/ w.game_state[1].current_move_index >= Len(w.solution_moves)
    THEN [w |-> w, ret |-> <<"No hint available">>, raised |-> FALSE]
    ELSE
    LET gs == w.game_state[1]
        next_move_uci == w.solution_moves[gs.current_move_index + 1]
        move == from_uci(next_move_uci)
    IN IF move = None
       THEN [w |-> w, ret |-> <<"Try: ", next_move_uci>>, raised |-> FALSE]
       ELSE IF ~Truthy(move[1])
       THEN [w |-> w, ret |-> <<"Try: ", "--">>, raised |-> FALSE]
       ELSE IF ~PieceOnFromSquare(gs.board, move[1])
       THEN [w |-> w, ret |-> <<"AssertionError">>, raised |-> TRUE]
       ELSE [w |-> w, ret |-> <<"Try: ", san(gs.board, move[1])>>,
             raised |-> FALSE]

-----------------------------------------------------------------------------
(* PuzzleManager (puzzle_manager.py) and the handler that loads a puzzle.  *)

\* PuzzleData: the fields the session reads
PuzzleData(pid, fen, moves) ==
    [puzzle_id |-> pid, fen |-> fen, moves |-> moves]

\* the puzzle of _get_fallback_puzzle; its position is a well-formed one in
\* which the first solution move, d1h5, is not legal
FallbackPuzzle == PuzzleData("fallback_001", "fen0", <<"d1h5", "g6h5">>)

\* an installation that leaves the current pointer of the store alone
InstallPuzzleNoPointer(w, puzzle) ==
    LET made == create_state([w EXCEPT !.current_puzzle = Some(puzzle)],
                             puzzle.puzzle_id, <<>>, None)
    IN [w |-> made.w, ret |-> puzzle]

\* the tail shared by fetch_puzzle and _get_fallback_puzzle: the puzzle
\* becomes the current one, its initial state is created and made current
InstallPuzzle(w, puzzle) ==
    LET made == create_state([w EXCEPT !.current_puzzle = Some(puzzle)],
                             puzzle.puzzle_id, <<>>, None)
    IN [w |-> set_current_state(made.w, made.ret), ret |-> puzzle]

\* PuzzleManager._get_fallback_puzzle
get_fallback_puzzle(w) == InstallPuzzle(w, FallbackPuzzle)

\* PuzzleManager.fetch_puzzle: fetched is the puzzle the provider answered
\* with, None when the request, the decoding of the answer or the saving
\* of the puzzle raised, which every except clause turns into the fallback
fetch_puzzle(w, fetched) ==
    IF fetched = None THEN get_fallback_puzzle(w)
    ELSE InstallPuzzle(w, fetched[1])

\* get_new_puzzle of server.py: fetch_puzzle, then initialize_puzzle with
\* the fields of the puzzle returned
get_new_puzzle(w, fetched) ==
    Bind(fetch_puzzle(w, fetched), LAMBDA got :
        initialize_puzzle(got.w, got.ret.puzzle_id, got.ret.fen,
                          got.ret.moves).w)

\* PuzzleManager.get_puzzle_hint: the state is the argument or, without
\* one, the current state of the store; the move named is the solution
\* move at the length of the state's move history.  Board(fen) and
\* from_uci raising give the coordinate string; board.san returns "--" for
\* the null move and fails its assertion, which the except clause does not
\* name, for a move from a square that holds no piece
get_puzzle_hint(w, state_arg) ==
    IF w.current_puzzle = None \/ w.current_puzzle[1].moves = <<>>
    THEN [w |-> w, ret |-> <<"No puzzle active or no solution available">>,
          raised |-> FALSE]
    ELSE
    LET puzzle == w.current_puzzle[1]
        state == IF state_arg = None THEN w.current_state ELSE state_arg
    IN IF state = None
       THEN [w |-> w, ret |-> <<"No current state available">>,
             raised |-> FALSE]
       ELSE IF Len(state[1].moves_uci) >= Len(puzzle.moves)
       THEN [w |-> w, ret |-> <<"No more moves in the solution">>,
             raised |-> FALSE]
       ELSE
       LET next_move == puzzle.moves[Len(state[1].moves_uci) + 1]
           board == replay_moves_on_board(puzzle.fen, state[1].moves_uci)
           move == from_uci(next_move)
       IN IF board = None \/ move = None
          THEN [w |-> w, ret |-> <<"Try: ", next_move>>, raised |-> FALSE]
          ELSE IF ~Truthy(move[1])
          THEN [w |-> w, ret |-> <<"Try: ", "--">>, raised |-> FALSE]
          ELSE IF ~PieceOnFromSquare(board[1], move[1])
          THEN [w |-> w, ret |-> <<"AssertionError">>, raised |-> TRUE]
          ELSE [w |-> w, ret |-> <<"Try: ", san(board[1], move[1])>>,
                raised |-> FALSE]

\* PuzzleManager.create_state_after_moves: None without a current puzzle
create_state_after_moves(w, moves_uci, message_id) ==
    IF w.current_puzzle = None THEN [w |-> w, ret |-> None]
    ELSE LET made == create_state(w, w.current_puzzle[1].puzzle_id,
                                  moves_uci, message_id)
         IN [w |-> made.w, ret |-> Some(made.ret)]

\* PuzzleManager.get_board_from_state: the moves of the state pushed on a
\* board of the current puzzle's position; None stands for the ValueError
\* raised without a current puzzle and for from_uci raising
get_board_from_state(w, state) ==
    IF w.current_puzzle = None THEN None
    ELSE replay_moves_on_board(w.current_puzzle[1].fen, state.moves_uci)

-----------------------------------------------------------------------------
(* The tool handlers of server.py.  A handler returns a dictionary; ret    *)
(* holds the fields of it that tell the paths of the handler apart.        *)

\* lines 127-142 of attempt_move: the state to start from is searched by
\* puzzle id and move history, created when the search finds none, loaded
\* into the engine and made current; raised is TRUE when load_from_state
\* raises, which the handler's except clause turns into a failure
StartFrom(w, from_state_moves_uci) ==
    LET puzzle == w.current_puzzle[1]
        search_results ==
            search_states(w, SearchCriteria(Some(puzzle.puzzle_id),
                                            Some(from_state_moves_uci),
                                            None, None, None, None))
    IN Bind(IF search_results # {}
            THEN [w |-> w, ret |-> Some(CHOOSE s \in search_results : TRUE)]
            ELSE create_state_after_moves(w, from_state_moves_uci, None),
            LAMBDA target :
                LET loaded == load_from_state(target.w, target.ret[1],
                                              puzzle.fen, puzzle.moves)
                IN IF loaded.raised
                   THEN [w |-> loaded.w, raised |-> TRUE]
                   ELSE [w |-> set_current_state(loaded.w, target.ret[1]),
                         raised |-> FALSE])

\* attempt_move; the rating adjust_difficulty keeps is no part of the
\* session and is left out
attempt_move(w, move_uci, from_state_moves_uci) ==
    IF w.current_puzzle = None
    THEN [w |-> w, ret |-> [success |-> FALSE, result |-> "none"]]
    ELSE
    Bind(IF from_state_moves_uci # None
         THEN StartFrom(w, from_state_moves_uci[1])
         ELSE [w |-> w, raised |-> FALSE],
         LAMBDA started :
            IF started.raised
            THEN [w |-> started.w,
                  ret |-> [success |-> FALSE, result |-> "none"]]
            ELSE LET played == play_move(started.w, move_uci)
                 IN [w |-> played.w,
                     ret |-> [success |-> TRUE, result |-> played.result]])

\* send_message; puzzle_state is None or Some of a dictionary, whose
\* puzzle_id is "" when the key is missing or empty.  The counter is
\* advanced before anything is tested; the state is created before the
\* board of the image is built, so it stays when that raises
send_message(w, puzzle_state) ==
    LET current_message_id == w.message_counter + 1
        counted == [w EXCEPT !.message_counter = current_message_id]
        failure == [success |-> FALSE, message_id |-> None]
        success == [success |-> TRUE, message_id |-> Some(current_message_id)]
    IN IF puzzle_state = None THEN [w |-> counted, ret |-> success]
       ELSE IF puzzle_state[1].puzzle_id = ""
       THEN [w |-> counted, ret |-> failure]
       ELSE IF counted.current_puzzle = None
       THEN [w |-> counted, ret |-> failure]
       ELSE IF puzzle_state[1].puzzle_id # counted.current_puzzle[1].puzzle_id
       THEN [w |-> counted, ret |-> failure]
       ELSE LET made == create_state(counted, puzzle_state[1].puzzle_id,
                                     puzzle_state[1].moves_uci,
                                     Some(current_message_id))
            IN IF get_board_from_state(made.w, made.ret) = None
               THEN [w |-> made.w, ret |-> failure]
               ELSE [w |-> made.w, ret |-> success]

\* line 320 of get_state: every argument is None
NoCriterion(puzzle_id_arg, moves_uci, move_count, move_count_min, move_count_max, message_id) ==
    /\ puzzle_id_arg = None
    /\ moves_uci = None
    /\ move_count = None
    /\ move_count_min = None
    /\ move_count_max = None
    /\ message_id = None

\* lines 346-353 of get_state: `tuple(moves_uci) if moves_uci else None`
\* gives None for an empty list as for None
BuiltCriteria(puzzle_id_arg, moves_uci, move_count, move_count_min, move_count_max, message_id) ==
    SearchCriteria(puzzle_id_arg,
                   IF moves_uci # None /\ moves_uci[1] # <<>>
                   THEN moves_uci ELSE None,
                   move_count, move_count_min, move_count_max, message_id)

\* the answer of get_state: searched is the criteria handed to
\* search_states, None when no search was made
StateAnswer(w, success, state_found, state_created, state, total, searched) ==
    [w |-> w,
     ret |-> [success |-> success, state_found |-> state_found,
              state_created |-> state_created, state |-> state,
              total_matching_states |-> total],
     searched |-> searched]

\* lines 321-343 of get_state: the answer from the current pointer
AnswerCurrent(w) ==
    IF w.current_state = None \/ w.current_puzzle = None
    THEN StateAnswer(w, FALSE, FALSE, FALSE, None, 0, None)
    ELSE IF get_board_from_state(w, w.current_state[1]) = None
    THEN StateAnswer(w, FALSE, FALSE, FALSE, None, 0, None)
    ELSE StateAnswer(w, TRUE, TRUE, FALSE, w.current_state, 1, None)

\* lines 401-438 of get_state: the state is created for the current puzzle
\* with `moves_uci or []`; it stays when building its board raises
AnswerCreated(w, moves_uci, message_id, criteria) ==
    IF w.current_puzzle = None
    THEN StateAnswer(w, FALSE, FALSE, FALSE, None, 0, Some(criteria))
    ELSE LET target_moves == IF moves_uci # None THEN moves_uci[1] ELSE <<>>
             new_state == create_state_after_moves(w, target_moves,
                                                   message_id)
         IN IF get_board_from_state(new_state.w, new_state.ret[1]) = None
            THEN StateAnswer(new_state.w, FALSE, FALSE, FALSE, None, 0,
                             Some(criteria))
            ELSE StateAnswer(new_state.w, TRUE, FALSE, TRUE, new_state.ret,
                             0, Some(criteria))

\* get_state; first is the element of the result list the handler takes,
\* whose order is the iteration order of a Python set
get_state(w, puzzle_id_arg, moves_uci, move_count, move_count_min, move_count_max, message_id, create_if_missing, first) ==
    IF NoCriterion(puzzle_id_arg, moves_uci, move_count, move_count_min,
                   move_count_max, message_id)
    THEN AnswerCurrent(w)
    ELSE
    LET criteria == BuiltCriteria(puzzle_id_arg, moves_uci, move_count,
                                  move_count_min, move_count_max, message_id)
        matching_states == search_states(w, criteria)
    IN IF matching_states # {}
       THEN IF \/ w.current_puzzle = None
               \/ w.current_puzzle[1].puzzle_id # first.puzzle_id
               \/ get_board_from_state(w, first) = None
            THEN StateAnswer(w, FALSE, FALSE, FALSE, None, 0, Some(criteria))
            ELSE StateAnswer(w, TRUE, TRUE, FALSE, Some(first),
                             Cardinality(matching_states), Some(criteria))
       ELSE IF ~create_if_missing
       THEN StateAnswer(w, TRUE, FALSE, FALSE, None, 0, Some(criteria))
       ELSE AnswerCreated(w, moves_uci, message_id, criteria)

\* the first element of the result list of get_state for the arguments:
\* any of the matching states
Firsts(w, puzzle_id_arg, moves_uci, move_count, move_count_min, move_count_max, message_id) ==
    LET matching_states ==
            search_states(w, BuiltCriteria(puzzle_id_arg, moves_uci,
                                           move_count, move_count_min,
                                           move_count_max, message_id))
    IN IF matching_states = {} THEN {PuzzleState("", <<>>, None)}
       ELSE matching_states

-----------------------------------------------------------------------------
(* The inputs the calls are driven with.                                   *)

PuzzleIds == {"p1", "p2"}

\* the puzzle the engine is driven with
SessionPuzzleIds == {"p1"}

\* move strings: coordinate notation, algebraic notation, the null move and
\* a string that parses in neither notation
MoveStrs == UciStrs \cup {"e4", "Qh4", "0000", "invalid_move"}

\* the coordinate-notation lines of at most n plies that are legal from the
\* start position
RECURSIVE Lines(_)
Lines(n) ==
    IF n = 0 THEN {<<>>}
    ELSE LET shorter == Lines(n - 1) IN
         shorter \cup
         UNION {{Append(line, uci(m)) :
                    m \in legal_moves(replay_moves_on_board("fen0", line)[1])} :
                line \in {l \in shorter : Len(l) = n - 1}}

\* the solutions puzzles come with: the legal lines that open with e2e4
\* and do not script the reply d7d6, the empty solution and one whose
\* scripted reply is not legal
Solutions ==
    {line \in Lines(MaxSol) :
        /\ line # <<>> => line[1] = "e2e4"
        /\ \A i \in 1..Len(line) : line[i] # "d7d6"}
    \cup {<<"e2e4", "e2e4">>}

\* the move histories of the states handed to load_from_state: histories
\* the engine produced, one that holds an illegal ply and one that holds a
\* string from_uci rejects
ResumeHistories == Lines(MaxPly) \cup {<<"d1h5">>, <<"invalid_move">>}

\* the input lists of play_move_tree: coordinate strings of both sides and
\* a string that parses in neither notation
TreeStrs == {"e2e4", "d2d4", "e7e5", "d1h5", "invalid_move"}

RECURSIVE SeqsUpTo(_, _)
SeqsUpTo(S, n) ==
    IF n = 0 THEN {<<>>}
    ELSE LET shorter == SeqsUpTo(S, n - 1) IN
         shorter \cup {Append(q, s) : q \in {x \in shorter : Len(x) = n - 1},
                                      s \in S}

MoveLists == SeqsUpTo(TreeStrs, MaxSeq)

\* rollback counts, from a negative one to one more than any history
Counts == (0 - 1) .. (MaxPly + 1)

\* message ids
Refs == {None} \cup {Some(k) : k \in 1..MaxRef}

-----------------------------------------------------------------------------
(* The state machine.                                                      *)

Init ==
    /\ game_state = None
    /\ solution_moves = <<>>
    /\ puzzle_id = None
    /\ states = {}
    /\ current_state = None
    /\ current_puzzle = None
    /\ message_counter = 0

SetWorld(w) ==
    /\ game_state' = w.game_state
    /\ solution_moves' = w.solution_moves
    /\ puzzle_id' = w.puzzle_id
    /\ states' = w.states
    /\ current_state' = w.current_state
    /\ current_puzzle' = w.current_puzzle
    /\ message_counter' = w.message_counter

\* the model stays within its bounds
WithinBounds(w) ==
    /\ Cardinality(w.states) <= MaxStates
    /\ w.game_state # None => Len(w.game_state[1].moves_uci) <= MaxPly
    /\ w.message_counter <= MaxRef

Initialize ==
    \E pid \in SessionPuzzleIds, fen \in Fens \cup {"bad_fen"}, solution \in Solutions :
        \E out \in {initialize_puzzle(World, pid, fen, solution)} :
        /\ SetWorld(out.w)

LoadFromState ==
    \E pid \in SessionPuzzleIds, moves \in ResumeHistories, solution \in Solutions :
        \E out \in {load_from_state(World, PuzzleState(pid, moves, None),
                                   "fen0", solution)} :
        /\ SetWorld(out.w)

PlayMove ==
    \E move_str \in MoveStrs :
        \E out \in {play_move(World, move_str)} :
        /\ WithinBounds(out.w)
        /\ SetWorld(out.w)

PlayMoveTree ==
    \E moves \in MoveLists :
        \E out \in {play_move_tree(World, moves)} :
        /\ WithinBounds(out.w)
        /\ SetWorld(out.w)

RollbackMoves ==
    \E count \in Counts :
        \E out \in {rollback_moves(World, count)} :
        /\ SetWorld(out.w)

GetHint ==
    \E out \in {get_hint(World)} :
        /\ SetWorld(out.w)

Next ==
    \/ Initialize
    \/ LoadFromState
    \/ PlayMove
    \/ PlayMoveTree
    \/ RollbackMoves
    \/ GetHint

Spec == Init /\ [][Next]_vars

-----------------------------------------------------------------------------
(* The store on its own, driven by its callers' calls.                     *)

\* the move histories the store is handed: of 0, 1 and 2 moves
StoreHistories == {<<>>, <<"e2e4">>, <<"e2e4", "e7e5">>}

\* an optional value over a set
Optional(S) == {None} \cup {Some(v) : v \in S}

\* the criteria search_states is handed: every field absent or present
CriteriaInputs ==
    {SearchCriteria(pid, moves, count, cmin, cmax, mid) :
        pid \in Optional({"p1"}),
        moves \in Optional({<<"e2e4">>}),
        count \in Optional({1}),
        cmin \in Optional({1}),
        cmax \in Optional({1}),
        mid \in Optional({1})}

CreateState ==
    \E pid \in PuzzleIds, moves \in StoreHistories, mid \in Refs :
        \E out \in {create_state(World, pid, moves, mid)} :
        /\ WithinBounds(out.w)
        /\ SetWorld(out.w)

SetCurrentState ==
    \E state \in states : SetWorld(set_current_state(World, state))

SearchStates ==
    \E criteria \in CriteriaInputs :
        /\ search_states(World, criteria) \subseteq states
        /\ UNCHANGED vars

CopyState ==
    \E source_state \in states, new_puzzle_id \in Optional(PuzzleIds),
       new_moves_uci \in Optional(StoreHistories), new_message_id \in Refs :
        \E out \in {copy_state(World, source_state, new_puzzle_id,
                               new_moves_uci, new_message_id)} :
        /\ WithinBounds(out.w)
        /\ SetWorld(out.w)

ClearPuzzleStates ==
    \E pid \in PuzzleIds :
        \E out \in {clear_puzzle_states(World, pid)} :
        /\ SetWorld(out.w)

StateExists ==
    \E pid \in PuzzleIds, moves \in StoreHistories :
        \E out \in {state_exists(World, pid, moves)} :
        /\ SetWorld(out.w)

GetStateCount ==
    \E out \in {get_state_count(World)} :
        /\ SetWorld(out.w)

GetCurrentState ==
    \E out \in {get_current_state(World)} :
        /\ SetWorld(out.w)

NextStore ==
    \/ CreateState
    \/ CopyState
    \/ SetCurrentState
    \/ SearchStates
    \/ ClearPuzzleStates
    \/ StateExists
    \/ GetStateCount
    \/ GetCurrentState

SpecStore == Init /\ [][NextStore]_vars

-----------------------------------------------------------------------------
(* The session as the server runs it: a puzzle is loaded, then moves are   *)
(* played and taken back.                                                  *)

\* the puzzles the provider answers with
FetchedPuzzles ==
    {PuzzleData(pid, fen, moves) :
        pid \in SessionPuzzleIds, fen \in Fens, moves \in Solutions}

GetNewPuzzle ==
    \E fetched \in Optional(FetchedPuzzles) :
        \E w \in {get_new_puzzle(World, fetched)} :
        /\ WithinBounds(w)
        /\ SetWorld(w)

\* fetch_puzzle called on its own, as the tests do before an engine is
\* built
FetchPuzzle ==
    \E fetched \in Optional(FetchedPuzzles) :
        \E out \in {fetch_puzzle(World, fetched)} :
        /\ WithinBounds(out.w)
        /\ SetWorld(out.w)

GetPuzzleHint ==
    \E state_arg \in {None} \cup {Some(s) : s \in states} :
        \E out \in {get_puzzle_hint(World, state_arg)} :
        /\ SetWorld(out.w)

NextSession ==
    \/ GetNewPuzzle
    \/ FetchPuzzle
    \/ PlayMove
    \/ PlayMoveTree
    \/ RollbackMoves
    \/ GetHint
    \/ GetPuzzleHint

SpecSession == Init /\ [][NextSession]_vars

-----------------------------------------------------------------------------
(* The server: its tools called in any order.                              *)

\* the move histories callers hand to the tools: the empty one, one the
\* engine produces, one with a ply that is not legal and one with a string
\* from_uci rejects
CallerHistories == {<<>>, <<"e2e4">>, <<"d1h5">>, <<"invalid_move">>}

\* the move strings callers hand to attempt_move
CallerMoves == {"e2e4", "e7e5", "d2d4", "invalid_move"}

\* the puzzle_state dictionaries handed to send_message
CallerPuzzleStates ==
    {[puzzle_id |-> pid, moves_uci |-> moves] :
        pid \in SessionPuzzleIds \cup {"fallback_001", ""},
        moves \in CallerHistories}

\* the puzzle the provider answers the server with
ServedPuzzles == {PuzzleData("p1", "fen0", <<"e2e4", "e7e5", "d1h5">>)}

ServeNewPuzzle ==
    \E fetched \in Optional(ServedPuzzles) :
        \E w \in {get_new_puzzle(World, fetched)} :
        /\ WithinBounds(w)
        /\ SetWorld(w)

AttemptMove ==
    \E move_uci \in CallerMoves,
       from_state_moves_uci \in Optional(CallerHistories) :
        \E out \in {attempt_move(World, move_uci, from_state_moves_uci)} :
        /\ WithinBounds(out.w)
        /\ SetWorld(out.w)

SendMessage ==
    \E puzzle_state \in Optional(CallerPuzzleStates) :
        \E out \in {send_message(World, puzzle_state)} :
        /\ WithinBounds(out.w)
        /\ SetWorld(out.w)

GetState ==
    \E puzzle_id_arg \in Optional(SessionPuzzleIds),
       moves_uci \in Optional(CallerHistories),
       move_count \in Optional({1}),
       message_id \in Refs,
       create_if_missing \in BOOLEAN :
        \E first \in Firsts(World, puzzle_id_arg, moves_uci, move_count,
                             None, None, message_id) :
        \E out \in {get_state(World, puzzle_id_arg, moves_uci, move_count,
                               None, None, message_id, create_if_missing,
                               first)} :
        /\ WithinBounds(out.w)
        /\ SetWorld(out.w)

NextServer ==
    \/ ServeNewPuzzle
    \/ AttemptMove
    \/ SendMessage
    \/ GetState

SpecServer == Init /\ [][NextServer]_vars

-----------------------------------------------------------------------------
(* Properties.                                                             *)

Initialized == game_state # None

\* the live session of an initialized engine
Session == game_state[1]

\* the board after the plies of a sequence of coordinate strings
BoardAfter(line) == replay_moves_on_board("fen0", line)[1]

\* every ply of the sequence is legal in the position it is played in
LegalInSequence(line) ==
    \A i \in 1..Len(line) :
        /\ line[i] \in UciStrs
        /\ UciTable[line[i]] \in legal_moves(BoardAfter(SubSeq(line, 1, i - 1)))

\* no checkmate or stalemate after any ply before the last one
NoEarlyEnd(line) ==
    \A i \in 1..(Len(line) - 1) :
        /\ ~is_checkmate(BoardAfter(SubSeq(line, 1, i)))
        /\ ~is_stalemate(BoardAfter(SubSeq(line, 1, i)))

\* the player's plies of a solution: its 1st, 3rd, 5th ... element
PlayerPlies(solution) ==
    [i \in 1..((Len(solution) + 1) \div 2) |-> solution[2 * i - 1]]

\* the string names a move that is legal on the board, in either notation
NamesLegalMove(board, s) ==
    \E m \in legal_moves(board) :
        s \in {uci(m), SanTable[uci(m)], SanMateTable[uci(m)]}

\* the coordinate form of the legal move the string names
NamedUci(board, s) ==
    CHOOSE u \in UciStrs :
        /\ UciTable[u] \in legal_moves(board)
        /\ s \in {u, SanTable[u], SanMateTable[u]}

\* C1: in every reachable state of an initialized engine, is_player_turn is
\* true exactly when the length of the move history is even.
C1_TurnAlternation ==
    Initialized =>
        (Session.is_player_turn <=> Len(Session.moves_uci) % 2 = 0)

\* an applied ply has left the opponent to move, with the state in the store
C1_Witness ==
    /\ Initialized
    /\ Len(Session.moves_uci) = 1
    /\ ~Session.is_player_turn
    /\ states # {}

\* C2: for a solution of length >= 1 whose plies are legal in sequence and
\* reach no checkmate or stalemate before the last ply, play_move_tree given
\* the player's plies right after initialize_puzzle never reports a wrong
\* move, ends with PUZZLE_SOLVED and leaves the whole solution as history.
C2_SolutionSolves ==
    \A solution \in Solutions :
        (Len(solution) >= 1 /\ LegalInSequence(solution) /\ NoEarlyEnd(solution))
        => LET begun == initialize_puzzle(World, "p1", "fen0", solution).w
               out == play_move_tree(begun, PlayerPlies(solution))
           IN /\ \A i \in 1..Len(out.results) :
                     out.results[i] # WrongMove(begun).message
              /\ out.result = "PUZZLE_SOLVED"
              /\ out.w.game_state[1].moves_uci = solution

\* C3: for a two-ply solution <<p, o>> with both plies legal and no
\* checkmate or stalemate after p, play_move_tree(<<p>>) right after
\* initialize_puzzle plays o as well, returns PUZZLE_SOLVED and returns
\* exactly two messages.
C3_TwoPlySolved ==
    \A solution \in Solutions :
        (Len(solution) = 2 /\ LegalInSequence(solution) /\ NoEarlyEnd(solution))
        => LET begun == initialize_puzzle(World, "p1", "fen0", solution).w
               out == play_move_tree(begun, <<solution[1]>>)
           IN /\ out.w.game_state[1].moves_uci = solution
              /\ out.result = "PUZZLE_SOLVED"
              /\ Len(out.results) = 2

\* C4: once play_move has returned PUZZLE_SOLVED, a further play_move call,
\* with any move string, leaves the engine and the store unchanged.
C4_SolvedTermination ==
    \A s1 \in MoveStrs, s2 \in MoveStrs :
        LET first == play_move(World, s1) IN
        first.result = "PUZZLE_SOLVED"
        => play_move(first.w, s2).w = first.w

C6_InvalidMoveNoChange ==
    \A s \in MoveStrs :
        (Initialized => ~NamesLegalMove(Session.board, s))
        => LET out == play_move(World, s) IN
           out.result = "INVALID_MOVE" /\ out.w = World

\* an unparsable string and a well-formed but illegal move are both
\* rejected in a session that has states in the store
C6_Witness ==
    /\ Initialized
    /\ states # {}
    /\ play_move(World, "invalid_move").result = "INVALID_MOVE"
    /\ \E s \in UciStrs :
          /\ ~NamesLegalMove(Session.board, s)
          /\ play_move(World, s).result = "INVALID_MOVE"

-----------------------------------------------------------------------------
(* Properties of the store.                                                *)

\* C7: a create_state repeated for the same (puzzle_id, moves_uci) with any
\* message ids returns a value equal under identity to the first and does
\* not increase the count; the store never holds two states of one
\* identity.
C7_Dedup ==
    /\ \A a \in states, b \in states : PuzzleStateEq(a, b) => a = b
    /\ \A pid \in PuzzleIds, moves \in StoreHistories,
          ref1 \in Refs, ref2 \in Refs :
          LET first == create_state(World, pid, moves, ref1)
              second == create_state(first.w, pid, moves, ref2)
          IN /\ PuzzleStateEq(second.ret, first.ret)
             /\ Cardinality(second.w.states) = Cardinality(first.w.states)

\* the store holds a state whose identity can be created again with
\* another message id
C7_Witness ==
    \E held \in states, ref \in Refs :
        /\ ref # held.message_id
        /\ create_state(World, held.puzzle_id, held.moves_uci, ref).w.states
              = states

\* C8: create_state on an identity that is already stored returns the
\* state held in the store: the returned message_id is the stored one.
C8_ReturnsStored ==
    \A pid \in PuzzleIds, moves \in StoreHistories, ref \in Refs :
        LET out == create_state(World, pid, moves, ref) IN
        out.ret \in out.w.states

\* the stored states of the identity (pid, moves)
StoredOf(w, pid, moves) ==
    {s \in w.states : PuzzleStateEq(s, PuzzleState(pid, moves, None))}

\* the result of a search by message id alone
ByRef(w, ref) ==
    search_states(w, SearchCriteria(None, None, None, None, None, ref))

\* the store after create_state(pid, moves, ref1) and then
\* create_state(pid, moves, ref2)
WrittenTwice(pid, moves, ref1, ref2) ==
    create_state(create_state(World, pid, moves, ref1).w, pid, moves, ref2).w

\* C9 as stated: after create_state(p, m, ref1) on an identity not yet
\* stored and then create_state(p, m, ref2) with ref2 # ref1, whatever the
\* two refs (None included), the stored state carries ref1, a search for
\* message id ref1 returns it and a search for message id ref2 does not.
C9_AnyRef ==
    \A pid \in PuzzleIds, moves \in StoreHistories,
       ref1 \in Refs, ref2 \in Refs :
        (ref1 # ref2 /\ StoredOf(World, pid, moves) = {})
        => LET w2 == WrittenTwice(pid, moves, ref1, ref2) IN
           /\ StoredOf(w2, pid, moves) = {PuzzleState(pid, moves, ref1)}
           /\ StoredOf(w2, pid, moves) \subseteq ByRef(w2, ref1)
           /\ StoredOf(w2, pid, moves) \cap ByRef(w2, ref2) = {}

\* C9, amended: first writer wins: after create_state(p, m, ref1) on an
\* identity not yet stored and then create_state(p, m, ref2) with
\* ref2 # ref1, the stored state of (p, m) carries ref1 and a search for
\* message id ref1 returns it; when ref2 is a message id (not None), a
\* search for message id ref2 does not return it.
C9_FirstWriterWins ==
    \A pid \in PuzzleIds, moves \in StoreHistories,
       ref1 \in Refs, ref2 \in Refs :
        (ref1 # ref2 /\ StoredOf(World, pid, moves) = {})
        => LET w2 == WrittenTwice(pid, moves, ref1, ref2) IN
           /\ StoredOf(w2, pid, moves) = {PuzzleState(pid, moves, ref1)}
           /\ StoredOf(w2, pid, moves) \subseteq ByRef(w2, ref1)
           /\ ref2 # None => StoredOf(w2, pid, moves) \cap ByRef(w2, ref2) = {}

\* a store that holds other states takes an identity written twice with
\* two different message ids: it grows by one state, which a search for
\* the first id finds among others left out
C9_Witness ==
    /\ states # {}
    /\ \E pid \in PuzzleIds, moves \in StoreHistories,
          k1 \in 1..MaxRef, k2 \in 1..MaxRef :
          /\ k1 # k2
          /\ StoredOf(World, pid, moves) = {}
          /\ LET w2 == WrittenTwice(pid, moves, Some(k1), Some(k2)) IN
             /\ Cardinality(w2.states) = Cardinality(states) + 1
             /\ ByRef(w2, Some(k1)) # w2.states
             /\ PuzzleState(pid, moves, Some(k1)) \in ByRef(w2, Some(k1))

\* a state satisfies every predicate of the criteria that is not None
Satisfies(state, criteria) ==
    /\ criteria.puzzle_id # None => state.puzzle_id = criteria.puzzle_id[1]
    /\ criteria.moves_uci # None => state.moves_uci = criteria.moves_uci[1]
    /\ criteria.move_count # None
          => Len(state.moves_uci) = criteria.move_count[1]
    /\ criteria.move_count_min # None
          => Len(state.moves_uci) >= criteria.move_count_min[1]
    /\ criteria.move_count_max # None
          => Len(state.moves_uci) <= criteria.move_count_max[1]
    /\ criteria.message_id # None => state.message_id = criteria.message_id

\* C10: search_states returns exactly the stored states that satisfy every
\* predicate of the criteria that is not None.
C10_SearchExact ==
    \A criteria \in CriteriaInputs :
        search_states(World, criteria)
            = {state \in states : Satisfies(state, criteria)}

\* a search with every predicate present finds a state and leaves out
\* another stored state
C10_Witness ==
    LET all == SearchCriteria(Some("p1"), Some(<<"e2e4">>), Some(1), Some(1),
                              Some(1), Some(1))
    IN /\ search_states(World, all) # {}
       /\ search_states(World, all) # states
       /\ \E s \in states : Len(s.moves_uci) = 2
       /\ \E s \in states : Len(s.moves_uci) = 0

-----------------------------------------------------------------------------
(* Properties of the engine and the store together.                        *)

\* the result applied a ply
Applied(result) == result \in {"SUCCESS", "PUZZLE_SOLVED"}

C12_FirstMoveState ==
    \A fetched \in Optional(FetchedPuzzles), s \in MoveStrs :
        LET out == play_move(get_new_puzzle(World, fetched), s) IN
        out.result \in {"SUCCESS", "WRONG_MOVE"}
        => /\ out.w.current_state # None
           /\ Len(out.w.current_state[1].moves_uci) >= 1

\* play_move called once for every element of moves, in order, from the
\* i-th on; all_applied tells whether every call so far applied its ply
RECURSIVE PlayAll(_, _, _)
PlayAll(acc, moves, i) ==
    IF i > Len(moves) THEN acc
    ELSE Bind(play_move(acc.w, moves[i]), LAMBDA out :
             PlayAll([w |-> out.w,
                      all_applied |-> acc.all_applied /\ Applied(out.result)],
                     moves, i + 1))

\* the world after rollback_moves(k) and play_move of each of the k moves
\* removed, in their original order
RolledAndReplayed(k) ==
    LET n == Len(Session.moves_uci)
        removed == SubSeq(Session.moves_uci, n - k + 1, n)
    IN PlayAll([w |-> rollback_moves(World, k).w, all_applied |-> TRUE],
               removed, 1)

\* C13: for a session with history length n, every ply of which is legal
\* from the start position, and every k with 1 <= k <= n,
\* rollback_moves(k) followed by play_move of the k removed moves in their
\* original order applies every one of them and restores the move history
\* and is_player_turn.
C13_RollbackInverse ==
    (Initialized /\ LegalInSequence(Session.moves_uci)) =>
        \A k \in 1..Len(Session.moves_uci) :
            LET back == RolledAndReplayed(k) IN
            /\ back.all_applied
            /\ back.w.game_state[1].moves_uci = Session.moves_uci
            /\ back.w.game_state[1].is_player_turn = Session.is_player_turn

Min(a, b) == IF a <= b THEN a ELSE b

\* C14: rollback_moves(count) with count > 0 on an initialized session
\* removes exactly r = min(count, len(move history)) plies from the end of
\* the board's move stack and of the move history, sets the index to
\* max(0, index - r), sets is_player_turn to the parity of the new history
\* length, clears puzzle_solved, returns true iff r >= 1 and touches
\* nothing else.
C14_RollbackEffect ==
    \A count \in Counts :
        (Initialized /\ count > 0)
        => LET out == rollback_moves(World, count)
               r == Min(count, Len(Session.moves_uci))
               n == Len(Session.moves_uci)
               stack == Session.board.move_stack
               after == out.w.game_state[1]
           IN /\ after.moves_uci = SubSeq(Session.moves_uci, 1, n - r)
              /\ after.board.move_stack = SubSeq(stack, 1, Len(stack) - r)
              /\ after.board.fen = Session.board.fen
              /\ after.current_move_index
                    = Max(0, Session.current_move_index - r)
              /\ after.is_player_turn = ((n - r) % 2 = 0)
              /\ after.puzzle_solved = FALSE
              /\ out.ret = (r >= 1)
              /\ out.w = [World EXCEPT !.game_state = Some(after)]

\* a solved session whose index is smaller than its history is long, so
\* that a rollback of the whole history meets the floor at 0
C14_Witness ==
    /\ Initialized
    /\ Session.puzzle_solved
    /\ Len(Session.moves_uci) >= 2
    /\ Session.current_move_index < Len(Session.moves_uci)
    /\ \E count \in Counts :
          /\ count > Len(Session.moves_uci)
          /\ rollback_moves(World, count).ret

\* C15: rollback_moves(count) with count <= 0, or on an engine without a
\* session, returns false and changes nothing, a puzzle_solved flag that
\* is true included.
C15_RollbackNoOp ==
    \A count \in Counts :
        (~Initialized \/ count <= 0)
        => LET out == rollback_moves(World, count) IN
           out.ret = FALSE /\ out.w = World

\* a solved session with moves to take back is handed a count of 0 and a
\* negative count
C15_Witness ==
    /\ Initialized
    /\ Session.puzzle_solved
    /\ Session.moves_uci # <<>>
    /\ {0, 0 - 1} \subseteq Counts
    /\ ~rollback_moves(World, 0).ret

\* C18: a play_move that applies a ply returns PUZZLE_SOLVED and sets
\* puzzle_solved exactly when, after the ply, the index is >= the length
\* of the solution or the position is checkmate or stalemate; otherwise it
\* returns SUCCESS and leaves puzzle_solved as it was.
C18_SolvedExactly ==
    \A s \in MoveStrs :
        LET out == play_move(World, s) IN
        Applied(out.result)
        => LET after == out.w.game_state[1]
               ended == \/ after.current_move_index >= Len(solution_moves)
                        \/ is_checkmate(after.board)
                        \/ is_stalemate(after.board)
           IN /\ out.result = "PUZZLE_SOLVED" <=> ended
              /\ out.result = "PUZZLE_SOLVED" => after.puzzle_solved
              /\ out.result = "SUCCESS"
                    => after.puzzle_solved = Session.puzzle_solved

\* with the index short of the solution, one ply ends the game by mate and
\* another ply leaves it open
C18_Witness ==
    /\ Initialized
    /\ \E s \in MoveStrs :
          LET out == play_move(World, s) IN
          /\ out.result = "PUZZLE_SOLVED"
          /\ out.w.game_state[1].current_move_index < Len(solution_moves)
          /\ is_checkmate(out.w.game_state[1].board)
    /\ \E s \in MoveStrs : play_move(World, s).result = "SUCCESS"

\* C19: in a session started by initialize_puzzle in which the plies
\* applied so far are exactly the first n plies of the solution, the index
\* equals n.
C19_CursorIsPlyIndex ==
    \A solution \in Solutions, n \in 0..MaxSol :
        (n <= Len(solution) /\ LegalInSequence(solution))
        => LET begun == initialize_puzzle(World, "p1", "fen0", solution).w
               played == PlayAll([w |-> begun, all_applied |-> TRUE],
                                 SubSeq(solution, 1, n), 1)
           IN played.w.game_state[1].moves_uci = SubSeq(solution, 1, n)
              => played.w.game_state[1].current_move_index = n

\* C20: a play_move that applies a ply appends exactly the resolved move
\* in coordinate form to the history and to the board, toggles
\* is_player_turn, and advances the index by 1 on a player ply and by 0 on
\* an opponent ply; a call that applies no ply leaves the history alone;
\* a legal move on the opponent's turn is applied whatever the solution
\* says.
C20_OnePly ==
    \A s \in MoveStrs :
        LET out == play_move(World, s) IN
        /\ Applied(out.result)
           => LET after == out.w.game_state[1]
                  u == NamedUci(Session.board, s)
              IN /\ after.moves_uci = Append(Session.moves_uci, u)
                 /\ after.board.move_stack
                       = Append(Session.board.move_stack, UciTable[u])
                 /\ after.is_player_turn = ~Session.is_player_turn
                 /\ after.current_move_index
                       = Session.current_move_index
                         + (IF Session.is_player_turn THEN 1 ELSE 0)
        /\ ~Applied(out.result) => out.w = World
        /\ (/\ Initialized
            /\ ~Session.is_player_turn
            /\ NamesLegalMove(Session.board, s))
           => Applied(out.result)

\* on the opponent's turn, with the index inside the solution, a legal
\* move that is not the solution's is applied and the index stays
C20_Witness ==
    /\ Initialized
    /\ ~Session.is_player_turn
    /\ Session.current_move_index < Len(solution_moves)
    /\ \E s \in MoveStrs :
          LET out == play_move(World, s) IN
          /\ out.result = "SUCCESS"
          /\ NamedUci(Session.board, s)
                # solution_moves[Session.current_move_index + 1]
          /\ out.w.game_state[1].current_move_index
                = Session.current_move_index

-----------------------------------------------------------------------------
(* Properties of eviction.                                                 *)

\* the stored states of a puzzle
OfPuzzle(pid) == {state \in states : state.puzzle_id = pid}

\* C16: clear_puzzle_states(p) removes every stored state whose puzzle_id
\* is p and no other state, and returns the number of states removed (0
\* when none match).
C16_EvictExact ==
    \A pid \in PuzzleIds :
        LET out == clear_puzzle_states(World, pid) IN
        /\ out.w.states = states \ OfPuzzle(pid)
        /\ out.ret = Cardinality(OfPuzzle(pid))
        /\ OfPuzzle(pid) = {} => out.ret = 0 /\ out.w.states = states

\* the store holds two states of one puzzle and a state of another, so
\* that an eviction removes some states and keeps one
C16_Witness ==
    \E pid \in PuzzleIds :
        /\ Cardinality(OfPuzzle(pid)) = 2
        /\ states \ OfPuzzle(pid) # {}
        /\ clear_puzzle_states(World, pid).ret = 2

\* C17: after clear_puzzle_states(p) the current state is None if it was a
\* state of puzzle p, and is what it was if it was a state of another
\* puzzle or None; the current state is never a state of the evicted
\* puzzle.
C17_EvictCurrent ==
    \A pid \in PuzzleIds :
        LET after == clear_puzzle_states(World, pid).w.current_state IN
        /\ (current_state # None /\ current_state[1].puzzle_id = pid)
              => after = None
        /\ (current_state = None \/ current_state[1].puzzle_id # pid)
              => after = current_state
        /\ after # None => after[1].puzzle_id # pid

\* the current state belongs to one of two puzzles that both have states:
\* evicting its puzzle clears it, evicting the other keeps it
C17_Witness ==
    /\ current_state # None
    /\ \E pid \in PuzzleIds, other \in PuzzleIds :
          /\ pid # other
          /\ current_state[1].puzzle_id = pid
          /\ OfPuzzle(pid) # {}
          /\ OfPuzzle(other) # {}
          /\ clear_puzzle_states(World, pid).w.current_state = None
          /\ clear_puzzle_states(World, other).w.current_state = current_state

-----------------------------------------------------------------------------
(* Properties of play_move_tree.                                           *)

\* the input lists that hold at least one move
NonEmptyLists == MoveLists \ {<<>>}

Stops == {"INVALID_MOVE", "PUZZLE_SOLVED"}

\* one pass of play_move_tree under the stop rule as stated: the sequence
\* ends on the first INVALID_MOVE or PUZZLE_SOLVED, of the input move or of
\* the automatic reply, and that result is the one returned
StatedStep(acc, move_str) ==
    Bind(play_move(acc.w, move_str), LAMBDA played :
        LET results1 == Append(acc.results, played.message) IN
        IF played.result \in Stops
        THEN [w |-> played.w, result |-> played.result,
              results |-> results1, stopped |-> TRUE]
        ELSE IF AutoReplyTest(played.w, played.result)
        THEN Bind(play_move(played.w,
                      played.w.solution_moves[
                          played.w.game_state[1].current_move_index + 1]),
                  LAMBDA opp :
                     [w |-> opp.w,
                      result |-> IF opp.result \in Stops
                                 THEN opp.result ELSE played.result,
                      results |-> Append(results1,
                                         <<"Opponent: ">> \o opp.message),
                      stopped |-> opp.result \in Stops])
        ELSE [w |-> played.w, result |-> played.result,
              results |-> results1, stopped |-> FALSE])

RECURSIVE StatedLoop(_, _, _)
StatedLoop(acc, moves, i) ==
    IF i > Len(moves) \/ acc.stopped THEN acc
    ELSE Bind(StatedStep(acc, moves[i]),
              LAMBDA next : StatedLoop(next, moves, i + 1))

\* C22: play_move_tree stops at the first INVALID_MOVE or PUZZLE_SOLVED of
\* an input move or of an automatic reply: no later input move is tried,
\* the result returned is that INVALID_MOVE or PUZZLE_SOLVED, and the
\* messages are those of the play_move calls made so far, in order.
C22_StopsAtFirst ==
    \A moves \in NonEmptyLists :
        LET out == play_move_tree(World, moves)
            stated == StatedLoop([w |-> World, result |-> "unbound",
                                  results |-> <<>>, stopped |-> FALSE],
                                 moves, 1)
        IN /\ out.result = stated.result
           /\ out.results = stated.results
           /\ out.w = stated.w

\* C23: play_move_tree plays the scripted reply only directly after an
\* input move that returned SUCCESS, left the opponent to move and left
\* the index inside the solution; after an input move that returned
\* WRONG_MOVE no reply is played and the next input move is processed.
C23_ReplyOnlyAfterSuccess ==
    /\ \A s \in TreeStrs :
          LET played == play_move(World, s)
              out == play_move_tree(World, <<s>>)
              replied ==
                  /\ played.result = "SUCCESS"
                  /\ ~played.w.game_state[1].is_player_turn
                  /\ played.w.game_state[1].current_move_index
                        < Len(solution_moves)
          IN IF replied
             THEN /\ Len(out.results) = 2
                  /\ out.w = play_move(played.w,
                                 solution_moves[played.w.game_state[1]
                                     .current_move_index + 1]).w
             ELSE /\ Len(out.results) = 1
                  /\ out.w = played.w
    /\ \A s1 \in TreeStrs, s2 \in TreeStrs :
          LET played == play_move(World, s1) IN
          played.result = "WRONG_MOVE"
          => LET out == play_move_tree(World, <<s1, s2>>)
                 rest == play_move_tree(World, <<s2>>)
             IN /\ out.results = <<played.message>> \o rest.results
                /\ out.result = rest.result
                /\ out.w = rest.w

\* on the player's turn, with the index inside the solution, one input
\* move is answered by the scripted reply and a wrong input move is
\* followed by the next input move, which is answered in its turn
C23_Witness ==
    /\ Initialized
    /\ Session.is_player_turn
    /\ Session.current_move_index < Len(solution_moves)
    /\ \E s1 \in TreeStrs, s2 \in TreeStrs :
          /\ play_move(World, s1).result = "WRONG_MOVE"
          /\ Len(play_move_tree(World, <<s2>>).results) = 2
          /\ Len(play_move_tree(World, <<s1, s2>>).results) = 3

-----------------------------------------------------------------------------
(* Properties of initialize_puzzle and load_from_state.                    *)

\* load_from_state called with a state of the given history
Resumed(moves, solution) ==
    load_from_state(World, PuzzleState("p1", moves, None), "fen0", solution)

\* C24: after load_from_state succeeds the move history (and the board's
\* move stack) is that of the state given, the index is its length, even
\* beyond the end of the solution, is_player_turn is true iff that length
\* is even, and puzzle_solved is false, whatever the position replayed.
C24_ResumeEffect ==
    \A moves \in ResumeHistories, solution \in Solutions :
        LET out == Resumed(moves, solution) IN
        ~out.raised
        => LET after == out.w.game_state[1] IN
           /\ after.moves_uci = moves
           /\ Len(after.board.move_stack) = Len(moves)
           /\ \A i \in 1..Len(moves) :
                 uci(after.board.move_stack[i]) = moves[i]
           /\ after.current_move_index = Len(moves)
           /\ after.is_player_turn = (Len(moves) % 2 = 0)
           /\ after.puzzle_solved = FALSE
           /\ out.w.solution_moves = solution
           /\ out.w.puzzle_id = Some("p1")
           /\ out.w.states = states
           /\ out.w.current_state = current_state

\* a session that is not solved although its position is checkmate and
\* its index, the length of its history, is beyond the end of the solution
C24_Witness ==
    /\ Initialized
    /\ ~Session.puzzle_solved
    /\ is_checkmate(Session.board)
    /\ Session.current_move_index = Len(Session.moves_uci)
    /\ Session.current_move_index > Len(solution_moves)
    /\ Resumed(Session.moves_uci, solution_moves).w.game_state = game_state

\* C25: load_from_state fails whenever some move of the history given is
\* not legal in the position in which it is replayed, and installs
\* nothing.
C25_ResumeRejectsIllegal ==
    \A moves \in ResumeHistories, solution \in Solutions :
        ~LegalInSequence(moves)
        => LET out == Resumed(moves, solution) IN
           out.raised /\ out.w = World

\* C26: after initialize_puzzle succeeds, from an engine without a
\* session, in the middle of a puzzle or solved, the board is fresh, the
\* move history is empty, the index is 0, is_player_turn is true,
\* puzzle_solved is false, and puzzle_id and solution are the ones given.
C26_InitializeEffect ==
    \A pid \in PuzzleIds, fen \in Fens, solution \in Solutions :
        LET out == initialize_puzzle(World, pid, fen, solution) IN
        ~out.raised
        => LET after == out.w.game_state[1] IN
           /\ after.moves_uci = <<>>
           /\ after.board = [fen |-> fen, move_stack |-> <<>>]
           /\ after.current_move_index = 0
           /\ after.is_player_turn = TRUE
           /\ after.puzzle_solved = FALSE
           /\ out.w.puzzle_id = Some(pid)
           /\ out.w.solution_moves = solution
           /\ out.w.states = states
           /\ out.w.current_state = current_state

\* a solved session with moves played and the opponent to move, which
\* initialize_puzzle replaces
C26_Witness ==
    /\ Initialized
    /\ Session.puzzle_solved
    /\ ~Session.is_player_turn
    /\ Session.current_move_index > 0
    /\ \E solution \in Solutions :
          /\ solution # solution_moves
          /\ ~initialize_puzzle(World, "p1", "fen0", solution).raised

\* C27: initialize_puzzle and load_from_state both leave is_player_turn
\* true, for every state load_from_state is given.
C27_PlayerToMove ==
    /\ \A solution \in Solutions :
          LET out == initialize_puzzle(World, "p1", "fen0", solution) IN
          ~out.raised => out.w.game_state[1].is_player_turn
    /\ \A moves \in ResumeHistories, solution \in Solutions :
          LET out == Resumed(moves, solution) IN
          ~out.raised => out.w.game_state[1].is_player_turn

-----------------------------------------------------------------------------
(* Properties of get_hint.                                                 *)

\* the cases in which no hint is due
NoHintDue ==
    \/ ~Initialized
    \/ Session.puzzle_solved
    \/ Session.current_move_index >= Len(solution_moves)

\* C28: get_hint returns the fixed no-hint message exactly when the engine
\* has no session, puzzle_solved is true or the index is >= the length of
\* the solution; otherwise it returns a hint that names the solution move
\* at the index, in algebraic or coordinate form; in every case it changes
\* neither the engine nor the store.  Stated for sessions whose solution
\* is a line of legal moves.
C28_Hint ==
    LegalInSequence(solution_moves) =>
    LET out == get_hint(World) IN
    /\ ~out.raised
    /\ out.w = World
    /\ out.ret = <<"No hint available">> <=> NoHintDue
    /\ ~NoHintDue
       => LET next == solution_moves[Session.current_move_index + 1] IN
          /\ out.ret[1] = "Try: "
          /\ out.ret[2] \in {next, SanTable[next], SanMateTable[next]}

-----------------------------------------------------------------------------
(* Properties of the lifetime of stored states.                            *)

\* every identity stored now is stored in w2 and w2 holds no fewer states
Kept(w2) ==
    /\ \A s \in states : SetContains(w2.states, s)
    /\ Cardinality(w2.states) >= Cardinality(states)

\* C29: an identity that is stored stays stored across create_state,
\* set_current_state, the read operations, play_move, play_move_tree,
\* rollback_moves, initialize_puzzle, load_from_state, get_hint and the
\* eviction of another puzzle, and none of these lowers the count;
\* clear_puzzle_states(p) removes states of p only.
C29_StoredUntilEvicted ==
    /\ \A pid \in PuzzleIds, moves \in StoreHistories, ref \in Refs :
          Kept(create_state(World, pid, moves, ref).w)
    /\ \A s \in states : Kept(set_current_state(World, s))
    /\ \A pid \in PuzzleIds, moves \in StoreHistories :
          Kept(state_exists(World, pid, moves).w)
    /\ Kept(get_state_count(World).w)
    /\ Kept(get_current_state(World).w)
    /\ \A s \in MoveStrs : Kept(play_move(World, s).w)
    /\ \A moves \in MoveLists : Kept(play_move_tree(World, moves).w)
    /\ \A count \in Counts : Kept(rollback_moves(World, count).w)
    /\ \A pid \in PuzzleIds, solution \in Solutions :
          Kept(initialize_puzzle(World, pid, "fen0", solution).w)
    /\ \A moves \in ResumeHistories, solution \in Solutions :
          Kept(Resumed(moves, solution).w)
    /\ Kept(get_hint(World).w)
    /\ \A pid \in PuzzleIds \cup {"fallback_001"} :
          LET out == clear_puzzle_states(World, pid) IN
          /\ \A s \in states :
                s.puzzle_id # pid => SetContains(out.w.states, s)
          /\ Cardinality(out.w.states) < Cardinality(states)
                => \E s \in states : s.puzzle_id = pid

\* the store holds states of two puzzles, a ply is played that adds a
\* state next to them, and the eviction of one puzzle leaves the other's
C29_Witness ==
    /\ Initialized
    /\ \E a \in states, b \in states : a.puzzle_id # b.puzzle_id
    /\ \E s \in MoveStrs :
          LET out == play_move(World, s) IN
          /\ Applied(out.result)
          /\ Cardinality(out.w.states) = Cardinality(states) + 1
    /\ \E s \in states :
          LET out == clear_puzzle_states(World, s.puzzle_id) IN
          out.w.states # {} /\ out.w.states # states

-----------------------------------------------------------------------------
(* Properties of the read operations of the store.                         *)

\* the identities stored
Identities == {<<s.puzzle_id, s.moves_uci>> : s \in states}

\* C30: state_exists, get_state_count, search_states and
\* get_current_state leave the state set and the current pointer as they
\* are; state_exists(p, m) is true iff a state of identity (p, m) is
\* stored; get_state_count is the number of distinct identities stored;
\* get_current_state is the current pointer.
C30_ReadOnly ==
    /\ \A pid \in PuzzleIds, moves \in StoreHistories :
          LET out == state_exists(World, pid, moves) IN
          /\ out.w = World
          /\ out.ret <=> <<pid, moves>> \in Identities
    /\ LET out == get_state_count(World) IN
       out.w = World /\ out.ret = Cardinality(Identities)
    /\ LET out == get_current_state(World) IN
       out.w = World /\ out.ret = current_state
    /\ \A criteria \in CriteriaInputs :
          search_states(World, criteria) \subseteq states

\* the store holds a state with a message id, whose identity exists, and
\* lacks another identity, which does not
C30_Witness ==
    /\ Cardinality(states) >= 2
    /\ current_state # None
    /\ \E s \in states :
          /\ s.message_id # None
          /\ state_exists(World, s.puzzle_id, s.moves_uci).ret
    /\ \E pid \in PuzzleIds, moves \in StoreHistories :
          ~state_exists(World, pid, moves).ret

-----------------------------------------------------------------------------
(* Properties of copy_state.                                               *)

\* the value a field of the copy takes: the override when one is given,
\* the source's value otherwise
Overridden(override, source_value) ==
    IF override # None THEN override[1] ELSE source_value

\* C40: copy_state stores and returns a state whose puzzle id, move
\* history and message id are the override when one is given and the
\* source's value otherwise; an override of the move history to the empty
\* sequence gives a state with an empty move history.
C40_CopyOverrides ==
    \A source_state \in states, new_puzzle_id \in Optional(PuzzleIds),
       new_moves_uci \in Optional(StoreHistories), new_message_id \in Refs :
        LET out == copy_state(World, source_state, new_puzzle_id,
                              new_moves_uci, new_message_id) IN
        /\ out.ret.puzzle_id
              = Overridden(new_puzzle_id, source_state.puzzle_id)
        /\ out.ret.moves_uci
              = Overridden(new_moves_uci, source_state.moves_uci)
        /\ out.ret.message_id
              = (IF new_message_id # None THEN new_message_id
                 ELSE source_state.message_id)
        /\ SetContains(out.w.states, out.ret)

-----------------------------------------------------------------------------
(* Properties of the tool handlers.                                        *)

\* the criteria with no field set
EmptyCriteria == SearchCriteria(None, None, None, None, None, None)

\* C31: for every combination of the arguments of get_state, an empty
\* move list included, the criteria handed to search_states has a field
\* set: a request with no effective criterion is answered from the current
\* pointer or rejected.
C31_NoEmptySearch ==
    \A puzzle_id_arg \in Optional(SessionPuzzleIds),
       moves_uci \in Optional(CallerHistories),
       move_count \in Optional({1}),
       move_count_min \in Optional({1}),
       move_count_max \in Optional({1}),
       message_id \in Refs,
       create_if_missing \in BOOLEAN :
        \A first \in Firsts(World, puzzle_id_arg, moves_uci, move_count,
                            move_count_min, move_count_max, message_id) :
            get_state(World, puzzle_id_arg, moves_uci, move_count,
                      move_count_min, move_count_max, message_id,
                      create_if_missing, first).searched
                # Some(EmptyCriteria)

\* C32: every state the store holds has a move history that is legal, ply
\* by ply, from the start position of the puzzle.
C32_StoredHistoriesLegal ==
    \A state \in states : LegalInSequence(state.moves_uci)

\* C33: after fetch_puzzle, with the provider's puzzle or with the
\* fallback, the current puzzle is the puzzle returned and the current
\* state of the store is the stored state of that puzzle with no moves.
C33_FetchInstalls ==
    \A fetched \in Optional(ServedPuzzles \cup FetchedPuzzles) :
        LET out == fetch_puzzle(World, fetched) IN
        /\ out.ret = (IF fetched = None THEN FallbackPuzzle ELSE fetched[1])
        /\ out.w.current_puzzle = Some(out.ret)
        /\ out.w.current_state # None
        /\ PuzzleStateEq(out.w.current_state[1],
                         PuzzleState(out.ret.puzzle_id, <<>>, None))
        /\ SetContains(out.w.states, out.w.current_state[1])

\* a puzzle is loaded, the current state has moves, and both a fetch the
\* provider answers and one it does not bring the pointer back to an
\* initial state, the second of another puzzle
C33_Witness ==
    /\ current_puzzle # None
    /\ current_state # None
    /\ current_state[1].moves_uci # <<>>
    /\ \E fetched \in ServedPuzzles :
          fetch_puzzle(World, Some(fetched)).w.current_state
              = Some(PuzzleState(fetched.puzzle_id, <<>>, None))
    /\ fetch_puzzle(World, None).w.current_puzzle # current_puzzle

\* C38: after send_message with a puzzle_state (p, m) succeeds with
\* message id k, a search for message id k returns a state of identity
\* (p, m), also when that identity was stored before.
C38_MessageFindsState ==
    \A puzzle_state \in CallerPuzzleStates :
        LET out == send_message(World, Some(puzzle_state)) IN
        out.ret.success
        => \E state \in search_states(out.w,
                            SearchCriteria(None, None, None, None, None,
                                           out.ret.message_id)) :
              PuzzleStateEq(state, PuzzleState(puzzle_state.puzzle_id,
                                               puzzle_state.moves_uci, None))

-----------------------------------------------------------------------------
(* Invariants of the engine.                                               *)

\* C34: in an initialized engine 0 <= cursor <= length of the list of
\* moves, and the move stack of the board has the length and, ply by ply,
\* the moves of that list.
C34_HistoryMirrorsBoard ==
    Initialized =>
        /\ 0 <= Session.current_move_index
        /\ Session.current_move_index <= Len(Session.moves_uci)
        /\ Len(Session.board.move_stack) = Len(Session.moves_uci)
        /\ \A i \in 1..Len(Session.moves_uci) :
              uci(Session.board.move_stack[i]) = Session.moves_uci[i]

\* plies of both sides have been played and the cursor is behind the
\* length of the list of moves
C34_Witness ==
    /\ Initialized
    /\ Len(Session.moves_uci) >= 2
    /\ 0 < Session.current_move_index
    /\ Session.current_move_index < Len(Session.moves_uci)
    /\ Len(Session.board.move_stack) = Len(Session.moves_uci)

\* C35: when the session is solved, the cursor is at or past the end of
\* the solution or the position is checkmate or stalemate.
C35_SolvedMeansEnded ==
    Initialized /\ Session.puzzle_solved =>
        \/ Session.current_move_index >= Len(solution_moves)
        \/ is_checkmate(Session.board)
        \/ is_stalemate(Session.board)

\* the session is solved by a checkmate with the cursor inside the solution
C35_Witness ==
    /\ Initialized
    /\ Session.puzzle_solved
    /\ Session.current_move_index < Len(solution_moves)
    /\ is_checkmate(Session.board)

\* the current state of the store has the live list of moves of the engine
Tracks(w) ==
    /\ w.current_state # None
    /\ w.current_state[1].moves_uci = w.game_state[1].moves_uci

\* C36: a ply that is applied makes the current state of the store carry
\* the list of moves of the engine, and from then on every play_move,
\* play_move_tree and rollback_moves keeps it so.
C36_PointerTracksEngine ==
    Initialized =>
        /\ \A s \in MoveStrs :
              LET out == play_move(World, s) IN
              Applied(out.result) \/ Tracks(World) => Tracks(out.w)
        /\ Tracks(World) =>
              /\ \A moves \in NonEmptyLists :
                    Tracks(play_move_tree(World, moves).w)
              /\ \A count \in Counts : Tracks(rollback_moves(World, count).w)

\* C37: play_move_tree with an empty list returns an outcome and an
\* empty list of messages, raises nothing and changes no state.
C37_EmptySequence ==
    LET out == play_move_tree(World, <<>>) IN
    /\ ~out.raised
    /\ out.result \in {"SUCCESS", "INVALID_MOVE", "WRONG_MOVE",
                       "PUZZLE_SOLVED"}
    /\ out.results = <<>>
    /\ out.w = World

-----------------------------------------------------------------------------
(* The two hints.                                                          *)

\* the hint is a suggestion
Suggests(hint) == ~hint.raised /\ hint.ret[1] = "Try: "

\* the engine and the puzzle manager are on the same puzzle, and the
\* current state of the store has the engine's list of moves
SameSession ==
    /\ Initialized
    /\ current_puzzle # None
    /\ puzzle_id = Some(current_puzzle[1].puzzle_id)
    /\ solution_moves = current_puzzle[1].moves
    /\ Tracks(World)
    /\ current_state[1].puzzle_id = current_puzzle[1].puzzle_id

\* C39: when the current state of the store has the engine's list of
\* moves and get_hint and get_puzzle_hint both give a suggestion, the two
\* suggestions name the same solution move.
C39_HintsAgree ==
    SameSession /\ LegalInSequence(solution_moves) =>
        LET engine == get_hint(World)
            manager == get_puzzle_hint(World, None)
        IN Suggests(engine) /\ Suggests(manager)
           => /\ engine.ret = manager.ret
              /\ solution_moves[Session.current_move_index + 1]
                    = current_puzzle[1].moves[Len(current_state[1].moves_uci) + 1]

====
